---- MODULE Spec2Model ----
(***************************************************************************)
(* Model of heim-process, macOS backend: src/heim-process/src/sys/macos/   *)
(* process/mod.rs.  The program state is the handle the caller holds, the  *)
(* outcome of the last operation and the `processes()` stream; the         *)
(* operating system's process table is the environment.                   *)
(***************************************************************************)
EXTENDS Integers, Sequences, FiniteSets, TLC

\* ---------------------------------------------------------------- bounds
MaxPid == 2
MaxClock == 2

Pids == 0..MaxPid
KernelPid == 0

\* ------------------------------------------------------- raw OS vocabulary
\* errno values a raw call can fail with; "OK" marks success.
Errnos == {"ESRCH", "EPERM", "EACCES", "EIO"}
PermissionDenied == {"EPERM", "EACCES"}

\* p_stat codes of the kernel: SIDL..SZOMB are 1..5; 0 and 6 are outside.
RawStats == 0..6
\* p_comm buffers: bytes up to the first NUL are the name; 255 is not UTF-8.
Comms == <<(<<97, 0>>), (<<255, 98, 0>>), (<<0, 99>>)>>
Paths == {"/bin/a"}
TaskInfos == {[utime |-> 1, stime |-> 2, rss |-> 3, vsize |-> 4]}

VARIABLES proc, clock, self, h, pinned, last, stream
vars == <<proc, clock, self, h, pinned, last, stream>>

\* ------------------------------------------------------------------ values
\* a value outside Pids, for "no pid"
NoPid == 0 - 1
NoHandle == [pid |-> NoPid, create_time |-> NoPid]

Ok(v) == [tag |-> "Ok", pid |-> NoPid, val |-> <<v>>]
NoSuchProcess(pid) == [tag |-> "NoSuchProcess", pid |-> pid, val |-> <<>>]
ZombieProcess(pid) == [tag |-> "ZombieProcess", pid |-> pid, val |-> <<>>]
AccessDenied(pid) == [tag |-> "AccessDenied", pid |-> pid, val |-> <<>>]
Incompatible(pid) == [tag |-> "Incompatible", pid |-> pid, val |-> <<>>]
Other(cause) == [tag |-> "Other", pid |-> NoPid, val |-> <<cause>>]

\* timeval of a start tick, and its conversion to Time (microseconds)
Timeval(tick) == [tv_sec |-> tick \div 2, tv_usec |-> (tick % 2) * 500000]
into_time(tv) == tv.tv_sec * 1000000 + tv.tv_usec

\* ------------------------------------------------------------- environment
\* The raw results the OS can give for a call on pid, from its process table.
Present(pid) == proc[pid].st # "absent"

\* one record per raw state code; parent and name vary with it
Kinfos(pid) ==
    {[e_ppid |-> s % 2, p_comm |-> Comms[(s % 3) + 1], p_stat |-> s,
      p_starttime |-> Timeval(proc[pid].start)] : s \in RawStats}

Failures(pid) ==
    IF proc[pid].st = "alive"
    THEN {[errno |-> e, data |-> <<>>] : e \in Errnos \ {"ESRCH"}}
    ELSE {[errno |-> "ESRCH", data |-> <<>>]}

KernelFailures(pid) ==
    IF pid = KernelPid
    THEN {[errno |-> "ESRCH", data |-> <<>>]}
    ELSE {}

RawOk(pid, datas) ==
    IF proc[pid].st = "alive"
    THEN {[errno |-> "OK", data |-> <<d>>] : d \in datas}
    ELSE {}

bindings_process(pid) == RawOk(pid, Kinfos(pid)) \cup Failures(pid)
pid_path(pid) == RawOk(pid, Paths) \cup Failures(pid) \cup KernelFailures(pid)
pid_cwd(pid) == RawOk(pid, Paths) \cup Failures(pid) \cup KernelFailures(pid)
task_info(pid) == RawOk(pid, TaskInfos) \cup Failures(pid) \cup KernelFailures(pid)

\* ------------------------------------------------------------- classifier
\* utils::catch_zombie: the error of a failed raw call, with the existence
\* probe's answer `present` (the probe runs only for "no matching record").
catch_zombie(e, pid, present) ==
    IF e = "ESRCH"
    THEN IF present THEN ZombieProcess(pid) ELSE NoSuchProcess(pid)
    ELSE IF e \in PermissionDenied THEN AccessDenied(pid)
    ELSE Other(e)

catch_zombie_calls(e) == IF e = "ESRCH" THEN <<"probe">> ELSE <<>>

\* ---------------------------------------------------------------- handlers
\* Each handler maps the raw result r of its OS call to its outcome and the
\* OS calls it made.
\* Faulty variants of the handlers, defined before the handler each one
\* departs from; the properties below are run against them as well, to see
\* that each property depends on the handler it is about.

\* get that passes the raw error on without classifying it
get_unclassified(pid, r, present) ==
    IF r.errno = "OK"
    THEN [res |-> Ok([pid |-> pid,
                      create_time |-> into_time(r.data[1].p_starttime)]),
          calls |-> <<"process">>]
    ELSE [res |-> Other(r.errno), calls |-> <<"process">>]

get(pid, r, present) ==
    IF r.errno = "OK"
    THEN [res |-> Ok([pid |-> pid,
                      create_time |-> into_time(r.data[1].p_starttime)]),
          calls |-> <<"process">>]
    ELSE [res |-> catch_zombie(r.errno, pid, present),
          calls |-> <<"process">> \o catch_zombie_calls(r.errno)]

parent_pid(pid, r, present) ==
    IF r.errno = "OK"
    THEN [res |-> Ok(r.data[1].e_ppid), calls |-> <<"process">>]
    ELSE [res |-> catch_zombie(r.errno, pid, present),
          calls |-> <<"process">> \o catch_zombie_calls(r.errno)]

\* CStr::from_ptr: the bytes before the first NUL
RECURSIVE CStr(_)
CStr(buf) ==
    IF buf = <<>> \/ Head(buf) = 0 THEN <<>>
    ELSE <<Head(buf)>> \o CStr(Tail(buf))

\* to_string_lossy: a byte that is not valid UTF-8 becomes U+FFFD
to_string_lossy(bytes) ==
    [i \in 1..Len(bytes) |-> IF bytes[i] < 128 THEN bytes[i] ELSE 65533]

name(pid, r, present) ==
    IF r.errno = "OK"
    THEN [res |-> Ok(to_string_lossy(CStr(r.data[1].p_comm))),
          calls |-> <<"process">>]
    ELSE [res |-> catch_zombie(r.errno, pid, present),
          calls |-> <<"process">> \o catch_zombie_calls(r.errno)]

\* exe without the arm for pid 0
exe_unguarded(pid, r, present) ==
    IF r.errno = "OK"
    THEN [res |-> Ok(r.data[1]), calls |-> <<"pid_path">>]
    ELSE [res |-> catch_zombie(r.errno, pid, present),
          calls |-> <<"pid_path">> \o catch_zombie_calls(r.errno)]

exe(pid, r, present) ==
    IF r.errno = "OK"
    THEN [res |-> Ok(r.data[1]), calls |-> <<"pid_path">>]
    ELSE IF pid = 0
    THEN [res |-> AccessDenied(pid), calls |-> <<"pid_path">>]
    ELSE [res |-> catch_zombie(r.errno, pid, present),
          calls |-> <<"pid_path">> \o catch_zombie_calls(r.errno)]

\* cwd with the pid 0 arm of exe copied into it
cwd_guarded(pid, r, present) ==
    IF r.errno = "OK"
    THEN [res |-> Ok(r.data[1]), calls |-> <<"pid_cwd">>]
    ELSE IF pid = 0
    THEN [res |-> AccessDenied(pid), calls |-> <<"pid_cwd">>]
    ELSE [res |-> catch_zombie(r.errno, pid, present),
          calls |-> <<"pid_cwd">> \o catch_zombie_calls(r.errno)]

cwd(pid, r, present) ==
    IF r.errno = "OK"
    THEN [res |-> Ok(r.data[1]), calls |-> <<"pid_cwd">>]
    ELSE [res |-> catch_zombie(r.errno, pid, present),
          calls |-> <<"pid_cwd">> \o catch_zombie_calls(r.errno)]

\* Status::try_from(p_stat): sees the raw code only
KnownStats == 1..5
StatusName == <<"Idle", "Running", "Sleeping", "Stopped", "Zombie">>
Status_try_from(p_stat) ==
    IF p_stat \in KnownStats
    THEN [ok |-> TRUE, val |-> StatusName[p_stat]]
    ELSE [ok |-> FALSE, val |-> "Incompatible"]

\* map_err(From::from): the conversion error becomes a ProcessError; the pid
\* is not among its inputs
From_from(e) == [tag |-> e, pid |-> NoPid, val |-> <<>>]

\* status that falls back to Running for a code it does not know
status_defaulting(pid, r, present) ==
    IF r.errno = "OK"
    THEN LET t == Status_try_from(r.data[1].p_stat) IN
         [res |-> IF t.ok THEN Ok(t.val) ELSE Ok("Running"),
          calls |-> <<"process">>]
    ELSE [res |-> catch_zombie(r.errno, pid, present),
          calls |-> <<"process">> \o catch_zombie_calls(r.errno)]

status(pid, r, present) ==
    IF r.errno = "OK"
    THEN LET t == Status_try_from(r.data[1].p_stat) IN
         [res |-> IF t.ok THEN Ok(t.val) ELSE From_from(t.val),
          calls |-> <<"process">>]
    ELSE [res |-> catch_zombie(r.errno, pid, present),
          calls |-> <<"process">> \o catch_zombie_calls(r.errno)]

CpuTime_from(ti) == [user |-> ti.utime, system |-> ti.stime]
Memory_from(ti) == [rss |-> ti.rss, vms |-> ti.vsize]

\* cpu_time that passes the raw error on without classifying it
cpu_time_unclassified(pid, r, present) ==
    IF r.errno = "OK"
    THEN [res |-> Ok(CpuTime_from(r.data[1])), calls |-> <<"task_info">>]
    ELSE [res |-> Other(r.errno), calls |-> <<"task_info">>]

cpu_time(pid, r, present) ==
    IF r.errno = "OK"
    THEN [res |-> Ok(CpuTime_from(r.data[1])), calls |-> <<"task_info">>]
    ELSE [res |-> catch_zombie(r.errno, pid, present),
          calls |-> <<"task_info">> \o catch_zombie_calls(r.errno)]

memory(pid, r, present) ==
    IF r.errno = "OK"
    THEN [res |-> Ok(Memory_from(r.data[1])), calls |-> <<"task_info">>]
    ELSE [res |-> catch_zombie(r.errno, pid, present),
          calls |-> <<"task_info">> \o catch_zombie_calls(r.errno)]

\* the two accessors that read the handle only
pid_of(hd) == [res |-> Ok(hd.pid), calls |-> <<>>]
create_time(hd) == [res |-> Ok(hd.create_time), calls |-> <<>>]

\* current that looks up the kernel task instead of the caller
current_kernel(selfpid, r, present) ==
    LET o == get(KernelPid, r, present) IN
    [res |-> o.res, calls |-> <<"getpid">> \o o.calls]

\* current(): getpid(), then get
current(selfpid, r, present) ==
    LET o == get(selfpid, r, present) IN
    [res |-> o.res, calls |-> <<"getpid">> \o o.calls]

\* pids(): the pid list of one bulk call, or its error
pids(order, failed) ==
    IF failed THEN <<[ok |-> FALSE, pid |-> NoPid, err |-> "EIO"]>>
    ELSE [i \in 1..Len(order) |-> [ok |-> TRUE, pid |-> order[i], err |-> ""]]

\* a stream that ends at the first item that is an error
processes_poll_fused(s, o) ==
    IF s.pos > Len(s.items) THEN [s EXCEPT !.done = TRUE]
    ELSE IF s.items[s.pos].ok
    THEN [s EXCEPT !.out = Append(@, o.res), !.gets = @ + 1, !.pos = @ + 1,
                   !.done = o.res.tag # "Ok"]
    ELSE [s EXCEPT !.out = Append(@, Other(s.items[s.pos].err)),
                   !.pos = @ + 1, !.done = TRUE]

\* a stream that swallows the enumerator's error
processes_poll_silent(s, o) ==
    IF s.pos > Len(s.items) THEN [s EXCEPT !.done = TRUE]
    ELSE IF s.items[s.pos].ok
    THEN [s EXCEPT !.out = Append(@, o.res), !.gets = @ + 1, !.pos = @ + 1]
    ELSE [s EXCEPT !.pos = @ + 1]

\* map_err(Into::into).and_then(get), one poll of the stream: o is the
\* outcome of get on the item at s.pos when that item is a pid
processes_poll(s, o) ==
    IF s.pos > Len(s.items) THEN [s EXCEPT !.done = TRUE]
    ELSE IF s.items[s.pos].ok
    THEN [s EXCEPT !.out = Append(@, o.res), !.gets = @ + 1, !.pos = @ + 1]
    ELSE [s EXCEPT !.out = Append(@, Other(s.items[s.pos].err)),
                   !.pos = @ + 1]

\* ------------------------------------------------------------------ state
Idle == [op |-> "none", pid |-> NoPid, res |-> Ok(0), calls |-> <<>>,
         raw |-> "none", present |-> FALSE, st |-> "none", src |-> NoPid,
         stat |-> NoPid, gone |-> FALSE]

NoStream == [active |-> FALSE, snap |-> <<>>, failed |-> FALSE,
             items |-> <<>>, pos |-> 1, out |-> <<>>, gets |-> 0,
             done |-> FALSE]

\* The record of an operation that has returned: its outcome and OS calls,
\* and what the OS held for pid when it ran (raw error, probe answer, table
\* entry, start tick of the process queried, raw state code, and whether the
\* process the handle was made from was gone).
Done(op, pid, r, o) ==
    [op |-> op, pid |-> pid, res |-> o.res, calls |-> o.calls,
     raw |-> r.errno, present |-> Present(pid), st |-> proc[pid].st,
     src |-> proc[pid].start,
     stat |-> IF op = "status" /\ r.errno = "OK" THEN r.data[1].p_stat
              ELSE NoPid,
     gone |-> /\ op \notin {"get", "current"}
              /\ \/ proc[pid].st # "alive"
                 \/ Timeval(proc[pid].start) # pinned.create_time]

Init ==
    /\ self \in {1, 2}
    /\ proc \in [Pids -> {[st |-> "alive", start |-> 0],
                          [st |-> "absent", start |-> 0]}]
    /\ proc[KernelPid].st = "alive"
    /\ proc[self].st = "alive"
    /\ clock = 0
    /\ h = NoHandle
    /\ pinned = NoHandle
    /\ last = Idle
    /\ stream = NoStream

\* ------------------------------------------------------------ environment
\* The OS changes its table between the program's operations; `last` is the
\* outcome of the operation that has just returned, so a step of the OS
\* clears it.
Mortal == Pids \ {KernelPid, self}

Exit(pid) ==
    /\ pid \in Mortal
    /\ proc[pid].st = "alive"
    /\ proc' = [proc EXCEPT ![pid].st = "zombie"]
    /\ last' = Idle
    /\ UNCHANGED <<clock, self, h, pinned, stream>>

Reap(pid) ==
    /\ pid \in Mortal
    /\ proc[pid].st = "zombie"
    /\ proc' = [proc EXCEPT ![pid] = [st |-> "absent", start |-> 0]]
    /\ last' = Idle
    /\ UNCHANGED <<clock, self, h, pinned, stream>>

Spawn(pid) ==
    /\ pid \in Mortal
    /\ proc[pid].st = "absent"
    /\ clock < MaxClock
    /\ clock' = clock + 1
    /\ proc' = [proc EXCEPT ![pid] = [st |-> "alive", start |-> clock + 1]]
    /\ last' = Idle
    /\ UNCHANGED <<self, h, pinned, stream>>

\* ---------------------------------------------------------------- actions
Keep(o) ==
    IF o.res.tag = "Ok" THEN o.res.val[1] ELSE h

\* The caller runs one operation at a time: an enumeration it has started is
\* polled to its end before the next operation.
Polling == stream.active /\ ~stream.done

Get(pid) ==
    \E r \in bindings_process(pid) :
        LET o == get(pid, r, Present(pid)) IN
        /\ ~Polling
        /\ last' = Done("get", pid, r, o)
        /\ h' = Keep(o)
        /\ pinned' = IF o.res.tag = "Ok"
                     THEN [pid |-> pid, create_time |-> r.data[1].p_starttime]
                     ELSE pinned
        /\ stream' = NoStream
        /\ UNCHANGED <<proc, clock, self>>

\* an accessor of the held handle returns o for the raw result r
Returns(op, r, o) ==
    /\ last' = Done(op, h.pid, r, o)
    /\ stream' = NoStream
    /\ UNCHANGED <<proc, clock, self, h, pinned>>

NoRaw == {[errno |-> "none", data |-> <<>>]}

ParentPid ==
    /\ h # NoHandle
    /\ \E r \in bindings_process(h.pid) :
        Returns("parent_pid", r, parent_pid(h.pid, r, Present(h.pid)))

Name ==
    /\ h # NoHandle
    /\ \E r \in bindings_process(h.pid) :
        Returns("name", r, name(h.pid, r, Present(h.pid)))

Exe ==
    /\ h # NoHandle
    /\ \E r \in pid_path(h.pid) :
        Returns("exe", r, exe(h.pid, r, Present(h.pid)))

Cwd ==
    /\ h # NoHandle
    /\ \E r \in pid_cwd(h.pid) :
        Returns("cwd", r, cwd(h.pid, r, Present(h.pid)))

StatusOf ==
    /\ h # NoHandle
    /\ \E r \in bindings_process(h.pid) :
        Returns("status", r, status(h.pid, r, Present(h.pid)))

CpuTime ==
    /\ h # NoHandle
    /\ \E r \in task_info(h.pid) :
        Returns("cpu_time", r, cpu_time(h.pid, r, Present(h.pid)))

Memory ==
    /\ h # NoHandle
    /\ \E r \in task_info(h.pid) :
        Returns("memory", r, memory(h.pid, r, Present(h.pid)))

PidOf ==
    /\ h # NoHandle
    /\ \E r \in NoRaw :
        Returns("pid", r, pid_of(h))

CreateTime ==
    /\ h # NoHandle
    /\ \E r \in NoRaw :
        Returns("create_time", r, create_time(h))

Current ==
    \E r \in bindings_process(self) :
        LET o == current(self, r, Present(self)) IN
        /\ ~Polling
        /\ last' = Done("current", self, r, o)
        /\ h' = Keep(o)
        /\ pinned' = IF o.res.tag = "Ok"
                     THEN [pid |-> self, create_time |-> r.data[1].p_starttime]
                     ELSE pinned
        /\ stream' = NoStream
        /\ UNCHANGED <<proc, clock, self>>

\* the orders in which the bulk call can report the pids in the table
RECURSIVE Ascending(_)
Ascending(S) ==
    IF S = {} THEN <<>>
    ELSE LET m == CHOOSE x \in S : \A y \in S : x <= y
         IN <<m>> \o Ascending(S \ {m})

Reversed(q) == [i \in 1..Len(q) |-> q[Len(q) + 1 - i]]

Orders ==
    LET up == Ascending({p \in Pids : Present(p)}) IN {up, Reversed(up)}

Processes ==
    \E failed \in BOOLEAN : \E order \in Orders :
        /\ ~Polling
        /\ failed => order = Ascending({p \in Pids : Present(p)})
        /\ stream' = [active |-> TRUE,
                      snap |-> IF failed THEN <<>> ELSE order,
                      failed |-> failed, items |-> pids(order, failed),
                      pos |-> 1, out |-> <<>>, gets |-> 0, done |-> FALSE]
        /\ last' = [Idle EXCEPT !.op = "processes"]
        /\ h' = NoHandle
        /\ pinned' = NoHandle
        /\ UNCHANGED <<proc, clock, self>>

Poll ==
    /\ stream.active
    /\ ~stream.done
    /\ LET atpid == stream.pos <= Len(stream.items)
                    /\ stream.items[stream.pos].ok
           pid == IF atpid THEN stream.items[stream.pos].pid ELSE KernelPid
       IN \E r \in IF atpid THEN bindings_process(pid) ELSE NoRaw :
            stream' = processes_poll(stream, get(pid, r, Present(pid)))
    /\ UNCHANGED <<proc, clock, self, h, pinned, last>>

Next ==
    \/ \E pid \in Pids : Exit(pid)
    \/ \E pid \in Pids : Reap(pid)
    \/ \E pid \in Pids : Spawn(pid)
    \/ \E pid \in Pids : Get(pid)
    \/ Current
    \/ ParentPid
    \/ Name
    \/ Exe
    \/ Cwd
    \/ StatusOf
    \/ CpuTime
    \/ Memory
    \/ PidOf
    \/ CreateTime
    \/ Processes
    \/ Poll

Spec == Init /\ [][Next]_vars
\* ================================================================= claims
OSAccessors ==
    {"parent_pid", "name", "exe", "cwd", "status", "cpu_time", "memory"}

\* the error section 4.2 of the specification gives for a failed raw call
ExpectedError(e, pid, present) ==
    CASE e = "ESRCH" /\ present -> ZombieProcess(pid)
      [] e = "ESRCH" /\ ~present -> NoSuchProcess(pid)
      [] e \in {"EPERM", "EACCES"} -> AccessDenied(pid)
      [] OTHER -> Other(e)

\* C1 (as stated): exe() on a handle of pid 0 always returns AccessDenied(0)
\* and never performs the path lookup.
C1_Original ==
    (last.op = "exe" /\ last.pid = 0) =>
        (last.res = AccessDenied(0) /\ last.calls = <<>>)

\* C1 (amended): exe() on a handle of pid 0 performs the path lookup; when
\* the lookup fails, with any error, it returns AccessDenied(0) without
\* running the classifier, and when it succeeds it returns the path.
C1_Amended ==
    (last.op = "exe" /\ last.pid = 0) =>
        /\ last.calls = <<"pid_path">>
        /\ last.raw = "OK" => last.res.tag = "Ok" /\ last.res.val[1] \in Paths
        /\ last.raw # "OK" => last.res = AccessDenied(0)

C1_Witness ==
    /\ last.op = "exe"
    /\ last.pid = 0
    /\ last.raw = "ESRCH"
    /\ last.res = AccessDenied(0)

\* C2: an OS-querying accessor called after the handle's process has exited
\* fails with NoSuchProcess(pid) or ZombieProcess(pid).
C2_FailsAfterExit ==
    (last.op \in OSAccessors /\ last.gone) =>
        /\ last.res.tag \in {"NoSuchProcess", "ZombieProcess"}
        /\ last.res.pid = last.pid

\* C3: no accessor returns a success value taken from a process other than
\* the one the handle was made from (same pid, pinned start time).
C3_IdentityPinned ==
    (last.op \in OSAccessors /\ last.res.tag = "Ok") =>
        Timeval(last.src) = pinned.create_time

\* C4: processes() yields one item per pid of the enumerator's list, in its
\* order: Ok(handle of that pid) or an error for that pid; it calls get once
\* per item and ends only after the last pid, whatever the items were.
C4_OneItemPerPid ==
    (stream.active /\ ~stream.failed) =>
        /\ Len(stream.out) = stream.pos - 1
        /\ stream.gets = Len(stream.out)
        /\ Len(stream.out) <= Len(stream.snap)
        /\ stream.done => Len(stream.out) = Len(stream.snap)
        /\ \A i \in 1..Len(stream.out) :
            LET it == stream.out[i] IN
            \/ it.tag = "Ok" /\ it.val[1].pid = stream.snap[i]
            \/ /\ it.tag \in {"NoSuchProcess", "ZombieProcess", "AccessDenied"}
               /\ it.pid = stream.snap[i]
            \/ it.tag = "Other"

C4_Witness ==
    /\ stream.active
    /\ stream.done
    /\ Len(stream.snap) = 3
    /\ stream.out[1].tag = "Ok"
    /\ stream.out[2].tag = "NoSuchProcess"
    /\ stream.out[3].tag = "Ok"

\* C5: get(pid) on a pid that is not in the process table fails with
\* NoSuchProcess(pid).
C5_GetAbsent ==
    (last.op = "get" /\ last.st = "absent") => last.res = NoSuchProcess(last.pid)

C5_Witness ==
    /\ last.op = "get"
    /\ last.st = "absent"
    /\ last.res.tag = "NoSuchProcess"

\* C6: on a zombie (the raw call fails with "no matching record" and the
\* probe finds the pid) every OS-querying accessor fails with
\* ZombieProcess(pid); pid() and create_time() return the values captured at
\* construction and make no OS call.
C6_Zombie ==
    /\ (/\ last.op \in OSAccessors
        /\ last.st = "zombie"
        /\ last.raw = "ESRCH"
        /\ last.present) => last.res = ZombieProcess(last.pid)
    /\ last.op = "pid" => last.res = Ok(pinned.pid) /\ last.calls = <<>>
    /\ last.op = "create_time" =>
        /\ last.res = Ok(into_time(pinned.create_time))
        /\ last.calls = <<>>

C6_Witness ==
    /\ last.op = "cpu_time"
    /\ last.st = "zombie"
    /\ last.res = ZombieProcess(h.pid)

C8_Current ==
    last.op = "current" =>
        /\ Head(last.calls) = "getpid"
        /\ Tail(last.calls)[1] = "process"
        /\ last.res.tag = "Ok" =>
            /\ last.res.val[1].pid = self
            /\ last.res.val[1].create_time = into_time(Timeval(proc[self].start))
        /\ last.res.tag # "Ok" =>
            last.res = ExpectedError(last.raw, self, last.present)

C8_Witness ==
    /\ last.op = "current"
    /\ last.res.tag = "Ok"
    /\ last.res.val[1].pid = self
    /\ self = 2

\* C9: every operation that makes a raw OS call classifies its failure the
\* same way, by the raw error and the probe's answer alone (exe() on pid 0
\* aside); cwd() on pid 0 is no exception.
C9_Uniform ==
    (/\ last.op \in OSAccessors \cup {"get", "current"}
     /\ last.raw \in Errnos
     /\ ~(last.op = "exe" /\ last.pid = 0)) =>
        last.res = ExpectedError(last.raw, last.pid, last.present)

C9_Witness ==
    /\ last.op = "cwd"
    /\ last.pid = 0
    /\ last.raw = "ESRCH"
    /\ last.res = ZombieProcess(0)

\* C10: when the enumerator's bulk call fails, processes() yields the one
\* Other error, calls get for no pid, and ends.
C10_EnumeratorFails ==
    (stream.active /\ stream.failed) =>
        /\ stream.gets = 0
        /\ stream.out = IF stream.pos = 1 THEN <<>> ELSE <<Other("EIO")>>
        /\ stream.done => stream.pos = 2

C10_Witness ==
    /\ stream.active
    /\ stream.failed
    /\ stream.done
    /\ stream.out = <<Other("EIO")>>
====
